---- MODULE Spec2Model ----
(***************************************************************************)
(* Sale transaction engine, cancellation/redo engine and terminal session  *)
(* lock registry of the inventory/POS system (src/database.py), driven by  *)
(* concurrent Streamlit UI sessions (src/main.py).                         *)
(*                                                                         *)
(* Every database function opens its own sqlite3 connection.  A SELECT     *)
(* runs outside any transaction; the implicit transaction starts at the    *)
(* first UPDATE/INSERT/DELETE and ends at commit().  A function that reads *)
(* and then writes is therefore two steps (Read, Write); the write part is *)
(* one atomic step.                                                        *)
(*                                                                         *)
(* Call sites in main.py that pass more arguments than the definitions in  *)
(* src/database.py and src/utils.py accept are modelled as calls of those  *)
(* definitions with the parameters they declare.                           *)
(*                                                                         *)
(* Money is in whole currency units; all prices are multiples of 50.       *)
(* Time is counted in half days: 2*d is 00:00 of day d, 2*d+1 its noon, so *)
(* that a date parsed by strptime (00:00 of the day) and datetime.now()    *)
(* during that day are different instants.                                 *)
(***************************************************************************)
EXTENDS Integers, Sequences, FiniteSets, TLC

\* ---------------------------------------------------------------- bounds
MaxCart == 1        \* units a session puts in one cart
MaxSales == 2       \* rows in the sales table
MaxLogs == 4        \* rows in the logs table
MaxRestock == 1     \* units restocked in total
MaxItems == 1       \* line items of a cart passed to process_sale_transaction directly
MaxApiSales == 1    \* sales committed by direct calls of process_sale_transaction
InitStock == 1      \* opening stock of product 1; product 2 has one unit less
RtStock == 2        \* round trip: opening stocks are drawn from 0..RtStock
RtItems == 3        \* round trip: line items of the cart sold
MaxNow == 3         \* coupons: the clock runs up to this half day
MaxPriced == 3      \* pricing: units in the cart that is priced

\* ------------------------------------------------------------- constants
Sessions == {"s1", "s2"}
None == "None"

\* users table seeded by init_db
users ==
  [ staff   |-> [role |-> "Operator", full_name |-> "Counter Staff 1"],
    manager |-> [role |-> "Manager",  full_name |-> "Store Manager"],
    ammar   |-> [role |-> "Admin",    full_name |-> "Ammar Admin"] ]
Users == DOMAIN users

\* terminals table seeded by init_db
OfficeDashboard == "Office Dashboard"
Physical == {"POS-1", "POS-2"}
Terminals == Physical \cup {OfficeDashboard}
\* values random.randint(1000, 9999) takes in lock_terminal
Rands == {1000, 9999}

Products == {1, 2}
price == [p \in Products |-> IF p = 1 THEN 100 ELSE 50]

Mobiles == {"9876500001"}
AutoCodes == {"SAVE10-1000"}
Reasons == {"", "test"}

VARIABLES
  products,         \* products table: id -> [stock, sales_count]
  coupons,          \* coupons table: code -> row
  customers,        \* customers table: mobile -> row
  sales,            \* sales table: sequence of rows, id = index
  logs,             \* number of rows of the logs table
  active_sessions,  \* active_sessions table: lock key -> [username, role]
  now,              \* datetime.now() in half days: 2*d is midnight starting day d
  festival,         \* an active 'Festival Offer' campaign exists
  gst_enabled,      \* system_settings: gst_enabled is 'True'
  expiry_date,      \* products.expiry_date: id -> 'NA', or the day it names
  restocked,        \* ghost: units added by restock_product per product
  session_state,    \* st.session_state of every browser session
  pending,          \* per session: the database call between its read and its write
  ret,              \* what the call completed by the last step returned, if any
  rt                \* ghost of the round-trip scenario: phase and snapshots

vars == <<products, coupons, customers, sales, logs, active_sessions, now,
          festival, gst_enabled, expiry_date, restocked, session_state, pending,
          ret, rt>>

db == <<products, coupons, customers, sales, logs, active_sessions>>
env == <<now, festival, gst_enabled, expiry_date>>

\* ---------------------------------------------------------------- helpers
RECURSIVE CountOf(_, _)
CountOf(seq, x) ==
  IF seq = << >> THEN 0
  ELSE (IF Head(seq) = x THEN 1 ELSE 0) + CountOf(Tail(seq), x)

RECURSIVE SumPrice(_)
SumPrice(cart) ==
  IF cart = << >> THEN 0 ELSE price[Head(cart)] + SumPrice(Tail(cart))

Min(a, b) == IF a < b THEN a ELSE b
Max(a, b) == IF a > b THEN a ELSE b

\* what a call returned: (ok, msg), with the caller and the arguments of the call
NoRet == [session |-> None, op |-> "none", ok |-> TRUE, msg |-> "", arg |-> 0,
          user |-> None, role |-> None, reason |-> ""]
Ret(s, op, ok, msg, arg) ==
  [session |-> s, op |-> op, ok |-> ok, msg |-> msg, arg |-> arg,
   user |-> None, role |-> None, reason |-> ""]
NoPending == [op |-> "none", arg |-> 0, user |-> None, reason |-> "", pos |-> None]
NoCustomer == [mobile |-> None, loyalty_points |-> 0]

NoRoundTrip == [phase |-> "off", pre |-> << >>, post |-> << >>]

\* session state written at lines 33-48 of main.py
FreshSession ==
  [ initialized |-> TRUE, user |-> None, role |-> None, full_name |-> None,
    pos_id |-> None, cart |-> << >>, checkout_stage |-> "cart",
    undo_stack |-> << >>, current_customer |-> NoCustomer, applied_coupon |-> None,
    use_points |-> FALSE,
    final_calc |-> [total |-> 0, tax |-> 0, discount |-> 0, points |-> 0] ]

\* st.session_state.clear(): the next script run initialises again
ClearedSession == [FreshSession EXCEPT !.initialized = FALSE]

\* ------------------------------------------------- database.py: sale engine
\* for item in cart_items: UPDATE products SET stock = stock - 1,
\* sales_count = sales_count + 1 WHERE id=?   (no row: nothing happens)
RECURSIVE SellItems(_, _)
SellItems(prods, items) ==
  IF items = << >> THEN prods
  ELSE LET pid == Head(items)
           nxt == IF pid \in DOMAIN prods
                  THEN [prods EXCEPT ![pid].stock = @ - 1,
                                     ![pid].sales_count = @ + 1]
                  ELSE prods
       IN SellItems(nxt, Tail(items))

\* a restore that visits every product of the sale once
RestoreOncePerProduct(prods, items) ==
  [p \in DOMAIN prods |->
     IF \E i \in DOMAIN items : items[i] = p
     THEN [stock |-> prods[p].stock + 1, sales_count |-> prods[p].sales_count - 1]
     ELSE prods[p]]

\* for pid in items_ids: UPDATE products SET stock = stock + 1,
\* sales_count = sales_count - 1 WHERE id=?
RECURSIVE RestoreItems(_, _)
RestoreItems(prods, items) ==
  IF items = << >> THEN prods
  ELSE LET pid == Head(items)
           nxt == IF pid \in DOMAIN prods
                  THEN [prods EXCEPT ![pid].stock = @ + 1,
                                     ![pid].sales_count = @ - 1]
                  ELSE prods
       IN RestoreItems(nxt, Tail(items))

\* UPDATE coupons SET used_count = used_count + 1 WHERE code=?
UseCoupon(cpns, coupon_code) ==
  IF coupon_code # None /\ coupon_code \in DOMAIN cpns
  THEN [cpns EXCEPT ![coupon_code].used_count = @ + 1]
  ELSE cpns

\* segment thresholds of process_sale_transaction
Segment(new_spend) ==
  IF new_spend > 50000 THEN "High-Value"
  ELSE IF new_spend > 10000 THEN "Regular"
  ELSE "Occasional"

\* a customer update that stores the sale's amounts instead of adding them
UpdateCustomerOverwrite(custs, customer_mobile, total, points_earned, points_redeemed) ==
  IF customer_mobile # None /\ customer_mobile \in DOMAIN custs
  THEN [custs EXCEPT ![customer_mobile] =
          [visits |-> custs[customer_mobile].visits + 1,
           total_spend |-> total,
           loyalty_points |-> points_earned - points_redeemed,
           segment |-> Segment(total)]]
  ELSE custs

\* the customer update of process_sale_transaction
UpdateCustomer(custs, customer_mobile, total, points_earned, points_redeemed) ==
  IF customer_mobile # None /\ customer_mobile \in DOMAIN custs
  THEN LET row == custs[customer_mobile]
           new_spend == row.total_spend + total
       IN [custs EXCEPT ![customer_mobile] =
             [visits |-> row.visits + 1,
              total_spend |-> new_spend,
              loyalty_points |-> row.loyalty_points + points_earned - points_redeemed,
              segment |-> Segment(new_spend)]]
  ELSE custs

\* the row INSERTed into sales (status defaults to 'Completed')
SaleRow(cart_items, total, operator, pos_id, customer_mobile, tax_amount, discount_amount, coupon_code, points_redeemed) ==
  [ items |-> cart_items, total_amount |-> total, operator |-> operator,
    pos_id |-> pos_id, customer_mobile |-> customer_mobile,
    tax_amount |-> tax_amount, discount_amount |-> discount_amount,
    coupon_applied |-> coupon_code, points_redeemed |-> points_redeemed,
    status |-> "Completed", cancellation_reason |-> None, cancelled_by |-> None ]

\* utils.calculate_loyalty_points
calculate_loyalty_points(amount) == amount \div 100

\* process_sale_transaction: one transaction, from the first UPDATE to commit;
\* the tables it leaves
process_sale_transaction(cart_items, total, operator, pos_id, customer_mobile, tax_amount, discount_amount, coupon_code, points_redeemed, points_earned) ==
  [ products |-> SellItems(products, cart_items),
    coupons |-> UseCoupon(coupons, coupon_code),
    sales |-> Append(sales, SaleRow(cart_items, total, operator, pos_id,
                                    customer_mobile, tax_amount, discount_amount,
                                    coupon_code, points_redeemed)),
    customers |-> UpdateCustomer(customers, customer_mobile, total,
                                 points_earned, points_redeemed) ]

PermissionDenied == "Permission Denied: Operators can only cancel their own sales."

\* the checks without the permission check
cancel_check_no_permission(sls, sale_id, operator, role) ==
  IF sale_id \notin DOMAIN sls THEN "Sale ID not found"
  ELSE IF sls[sale_id].status = "Cancelled" THEN "Sale already cancelled"
  ELSE "proceed"

\* cancel_sale_transaction, lines 310-322: the SELECT and the checks on it.
\* "proceed" stands for reaching line 324.
cancel_check(sls, sale_id, operator, role) ==
  IF sale_id \notin DOMAIN sls THEN "Sale ID not found"
  ELSE IF sls[sale_id].status = "Cancelled" THEN "Sale already cancelled"
  ELSE IF role = "Operator" /\ sls[sale_id].operator # operator
       THEN PermissionDenied
  ELSE "proceed"

\* a cancellation that binds the reason and the operator in the wrong order
cancel_write_swapped(sale_id, operator, reason) ==
  /\ products' = RestoreItems(products, sales[sale_id].items)
  /\ sales' = [sales EXCEPT ![sale_id].status = "Cancelled",
                            ![sale_id].cancellation_reason = operator,
                            ![sale_id].cancelled_by = reason]
  /\ logs' = logs + 1
  /\ UNCHANGED <<coupons, customers>>

\* a cancellation that gives the sale's coupon use back
cancel_write_releases_coupon(sale_id, operator, reason) ==
  /\ products' = RestoreItems(products, sales[sale_id].items)
  /\ sales' = [sales EXCEPT ![sale_id].status = "Cancelled",
                            ![sale_id].cancellation_reason = reason,
                            ![sale_id].cancelled_by = operator]
  /\ logs' = logs + 1
  /\ coupons' = IF sales[sale_id].coupon_applied \in DOMAIN coupons
                THEN [coupons EXCEPT ![sales[sale_id].coupon_applied].used_count = @ - 1]
                ELSE coupons
  /\ UNCHANGED customers

\* cancel_sale_transaction, lines 324-336: one transaction
cancel_write(sale_id, operator, reason) ==
  /\ products' = RestoreItems(products, sales[sale_id].items)
  /\ sales' = [sales EXCEPT ![sale_id].status = "Cancelled",
                            ![sale_id].cancellation_reason = reason,
                            ![sale_id].cancelled_by = operator]
  /\ logs' = logs + 1
  /\ UNCHANGED <<coupons, customers>>

\* the checks without the status check
redo_check_no_status(sls, sale_id) ==
  IF sale_id \notin DOMAIN sls THEN "ID not found" ELSE "proceed"

\* redo_sale_transaction, lines 348-353
redo_check(sls, sale_id) ==
  IF sale_id \notin DOMAIN sls THEN "ID not found"
  ELSE IF sls[sale_id].status # "Cancelled" THEN "Sale is not cancelled"
  ELSE "proceed"

\* a redo that commits the stock deduction without the status change
redo_write_stock_only(sale_id) ==
  /\ products' = SellItems(products, sales[sale_id].items)
  /\ sales' = sales
  /\ logs' = logs + 1
  /\ UNCHANGED <<coupons, customers>>

\* redo_sale_transaction, lines 355-365: one transaction
redo_write(sale_id) ==
  /\ products' = SellItems(products, sales[sale_id].items)
  /\ sales' = [sales EXCEPT ![sale_id].status = "Completed",
                            ![sale_id].cancellation_reason = None,
                            ![sale_id].cancelled_by = None]
  /\ logs' = logs + 1
  /\ UNCHANGED <<coupons, customers>>

\* ------------------------------------------------------ database.py: coupons
\* get_coupon: the message it returns ("Valid" comes with the coupon)
get_coupon(cpns, code, t) ==
  IF code \in DOMAIN cpns
  THEN IF t > 2 * cpns[code].valid_until THEN "Expired"
       ELSE IF cpns[code].used_count >= cpns[code].usage_limit
            THEN "Usage Limit Reached"
       ELSE "Valid"
  ELSE "Invalid Code"

\* create_coupon: INSERT fails on an existing code and nothing changes
create_coupon(cpns, code, dtype, value, min_bill, days_valid, limit, t) ==
  IF code \in DOMAIN cpns THEN cpns
  ELSE [c \in DOMAIN cpns \cup {code} |->
          IF c = code
          THEN [discount_type |-> dtype, value |-> value, min_bill |-> min_bill,
                valid_until |-> (t \div 2) + days_valid, usage_limit |-> limit,
                used_count |-> 0]
          ELSE cpns[c]]

\* generate_auto_coupon: "SAVE10-<random>", 10% off, min bill 500, 30 days, once
generate_auto_coupon(cpns, customer_mobile, code, t) ==
  IF customer_mobile = None THEN cpns
  ELSE create_coupon(cpns, code, "%", 10, 500, 30, 1, t)

\* ------------------------------------------------ database.py: lock registry
\* lock key: the terminal id, or for the back office f"Office_{username}_{rand}"
lock_key(pos_id, username, r) ==
  IF pos_id = OfficeDashboard THEN <<"Office", username, r>> ELSE <<pos_id>>

\* an occupancy check that finds no holder
is_pos_occupied_never(as, pos_id) == None

\* is_pos_occupied
is_pos_occupied(as, pos_id) ==
  IF pos_id = OfficeDashboard THEN None
  ELSE IF <<pos_id>> \in DOMAIN as THEN as[<<pos_id>>].username
  ELSE None

\* lock_terminal: INSERT OR REPLACE INTO active_sessions
lock_terminal(as, pos_id, username, role, r) ==
  LET k == lock_key(pos_id, username, r)
  IN [x \in DOMAIN as \cup {k} |->
        IF x = k THEN [username |-> username, role |-> role] ELSE as[x]]

\* unlock_terminal: DELETE FROM active_sessions WHERE username=?
unlock_terminal(as, username) ==
  [x \in {y \in DOMAIN as : as[y].username # username} |-> as[x]]

\* force_unlock_terminal: DELETE FROM active_sessions WHERE pos_id=?
force_unlock_terminal(as, pos_id) ==
  [x \in DOMAIN as \ {<<pos_id>>} |-> as[x]]

\* DELETE FROM active_sessions (init_db, force_clear_all_sessions)
NoSessions == [x \in {} |-> [username |-> None, role |-> None]]

\* ------------------------------------------------- main.py: pricing of a cart
tax_rate == 18

\* discount of the applied coupon (pos_interface, lines 436-440)
CouponDiscount(cpns, code, raw_total) ==
  IF code = None THEN 0
  ELSE IF cpns[code].discount_type = "Flat" THEN cpns[code].value
  ELSE IF cpns[code].discount_type = "%" THEN (raw_total * cpns[code].value) \div 100
  ELSE 0

\* expiry_date of the product rows init_db inserts: none (no discount applies)
NoExpiry == [na |-> TRUE, day |-> 0]

\* days_left = (exp_date - today).days, exp_date being 00:00 of the expiry day:
\* the whole days from now to then, rounded down
days_left(exp_day, t) == (2 * exp_day - t) \div 2

\* what calculate_advanced_loss_prevention reads of each product at time t
ExpiryInfo(dates, t) ==
  [p \in DOMAIN dates |->
     [na |-> dates[p].na,
      days_left |-> IF dates[p].na THEN 0 ELSE days_left(dates[p].day, t)]]

\* a discount that takes Buy-One-Get-One as half the price of every unit
ItemDiscountHalfOff(qty, unit_price, exp) ==
  IF exp.na THEN 0
  ELSE IF exp.days_left < 0 THEN 0
  ELSE IF exp.days_left <= 10 THEN qty * unit_price
  ELSE IF exp.days_left <= 60 THEN (qty * unit_price) \div 2
  ELSE IF exp.days_left <= 90 THEN (qty * unit_price * 2) \div 5
  ELSE 0

\* utils.calculate_advanced_loss_prevention: discount of one product of the cart
ItemDiscount(qty, unit_price, exp) ==
  IF exp.na THEN 0
  ELSE IF exp.days_left < 0 THEN 0
  ELSE IF exp.days_left <= 10 THEN qty * unit_price
  ELSE IF exp.days_left <= 30 THEN (qty \div 2) * unit_price
  ELSE IF exp.days_left <= 60 THEN (qty * unit_price) \div 2
  ELSE IF exp.days_left <= 90 THEN (qty * unit_price * 2) \div 5
  ELSE 0

RECURSIVE SumOver(_, _, _)
SumOver(S, cart, exps) ==
  IF S = {} THEN 0
  ELSE LET p == CHOOSE x \in S : TRUE
       IN ItemDiscount(CountOf(cart, p), price[p], exps[p])
          + SumOver(S \ {p}, cart, exps)

calculate_advanced_loss_prevention(cart, exps) ==
  SumOver({cart[i] : i \in DOMAIN cart}, cart, exps)

\* a quote whose payable amount is not floored at zero
QuoteNoFloor(cart, cpns, code, cust, use_points, fest, exps) ==
  LET raw_total == SumPrice(cart)
      points_to_redeem ==
        IF cust.mobile # None /\ cust.loyalty_points > 0 /\ use_points
        THEN Min(cust.loyalty_points, raw_total) ELSE 0
      discount == CouponDiscount(cpns, code, raw_total)
      loss_discount == calculate_advanced_loss_prevention(cart, exps)
      fest_disc == IF fest THEN (raw_total * 5) \div 100 ELSE 0
      total_after_disc ==
        raw_total - discount - fest_disc - points_to_redeem - loss_discount
      tax_amount == IF gst_enabled THEN (total_after_disc * tax_rate) \div 100 ELSE 0
  IN [ total |-> total_after_disc + tax_amount, tax |-> tax_amount,
       discount |-> discount + fest_disc + loss_discount,
       points |-> points_to_redeem ]

\* pos_interface, lines 402-462: the quote stored as final_calc
Quote(cart, cpns, code, cust, use_points, fest, exps) ==
  LET raw_total == SumPrice(cart)
      points_to_redeem ==
        IF cust.mobile # None /\ cust.loyalty_points > 0 /\ use_points
        THEN Min(cust.loyalty_points, raw_total) ELSE 0
      discount == CouponDiscount(cpns, code, raw_total)
      loss_discount == calculate_advanced_loss_prevention(cart, exps)
      fest_disc == IF fest THEN (raw_total * 5) \div 100 ELSE 0
      total_after_disc ==
        Max(0, raw_total - discount - fest_disc - points_to_redeem - loss_discount)
      tax_amount == IF gst_enabled THEN (total_after_disc * tax_rate) \div 100 ELSE 0
  IN [ total |-> total_after_disc + tax_amount, tax |-> tax_amount,
       discount |-> discount + fest_disc + loss_discount,
       points |-> points_to_redeem ]

\* ------------------------------------------------------------------- Init
\* The database as seeded (init_db, seed_advanced_demo_data) with one coupon
\* created by an administrator; no browser session is open yet.
OpeningStock == [p \in Products |-> IF p = 1 THEN InitStock ELSE InitStock - 1]

OpeningCustomer ==
  [visits |-> 1, total_spend |-> 200, loyalty_points |-> 2, segment |-> "Regular"]

InitTables ==
  /\ coupons = [c \in {"FLAT10"} |->
                   [discount_type |-> "Flat", value |-> 10, min_bill |-> 50,
                    valid_until |-> 30, usage_limit |-> 1, used_count |-> 0]]
  /\ customers = [m \in Mobiles |-> OpeningCustomer]
  /\ sales = << >>
  /\ logs = 0
  /\ active_sessions = NoSessions
  /\ now = 1
  /\ festival = FALSE
  /\ gst_enabled = FALSE
  /\ expiry_date = [p \in Products |-> NoExpiry]
  /\ restocked = [p \in Products |-> 0]
  /\ session_state = [s \in Sessions |-> ClearedSession]
  /\ pending = [s \in Sessions |-> NoPending]
  /\ ret = NoRet

Init ==
  /\ products = [p \in Products |-> [stock |-> OpeningStock[p], sales_count |-> 0]]
  /\ InitTables
  /\ rt = NoRoundTrip


\* ----------------------------------------- calls into database.py by a caller
\* A caller c is a thread of control with its own connection: a browser
\* session, or a direct caller of the function.
Free(c) == pending[c].op = "none"

\* cancel_sale_transaction(sale_id, operator, role, reason), lines 307-322
cancel_read(c, sale_id, operator, role, reason) ==
  LET msg == cancel_check(sales, sale_id, operator, role)
  IN IF msg = "proceed"
     THEN /\ pending' = [pending EXCEPT ![c] =
               [NoPending EXCEPT !.op = "cancel", !.arg = sale_id,
                                 !.user = operator, !.reason = reason]]
          /\ ret' = NoRet
     ELSE /\ ret' = [Ret(c, "cancel", FALSE, msg, sale_id) EXCEPT
                       !.user = operator, !.role = role]
          /\ UNCHANGED pending

\* cancel_sale_transaction, lines 324-342: the transaction, return of success
CancelWrite(c) ==
  /\ pending[c].op = "cancel"
  /\ logs < MaxLogs
  /\ cancel_write(pending[c].arg, pending[c].user, pending[c].reason)
  /\ ret' = [Ret(c, "cancel", TRUE, "Success", pending[c].arg) EXCEPT
                !.user = pending[c].user, !.reason = pending[c].reason]
  /\ pending' = [pending EXCEPT ![c] = NoPending]
  /\ UNCHANGED <<active_sessions, env, restocked, session_state>>

\* redo_sale_transaction(sale_id, operator), lines 345-353
redo_read(c, sale_id, operator) ==
  LET msg == redo_check(sales, sale_id)
  IN IF msg = "proceed"
     THEN /\ pending' = [pending EXCEPT ![c] =
               [NoPending EXCEPT !.op = "redo", !.arg = sale_id]]
          /\ ret' = NoRet
     ELSE /\ ret' = Ret(c, "redo", FALSE, msg, sale_id)
          /\ UNCHANGED pending

\* redo_sale_transaction, lines 355-371: the transaction, return of success
RedoWrite(c) ==
  /\ pending[c].op = "redo"
  /\ logs < MaxLogs
  /\ redo_write(pending[c].arg)
  /\ ret' = Ret(c, "redo", TRUE, "Success", pending[c].arg)
  /\ pending' = [pending EXCEPT ![c] = NoPending]
  /\ UNCHANGED <<active_sessions, env, restocked, session_state>>

\* restock_product(p_id, quantity)
restock_product(p, quantity) ==
  /\ quantity > 0
  /\ p \in DOMAIN products
  /\ restocked[1] + restocked[2] + quantity <= MaxRestock
  /\ products' = [products EXCEPT ![p].stock = @ + quantity]
  /\ restocked' = [restocked EXCEPT ![p] = @ + quantity]

\* --------------------------------------------------- main.py: session, login
Idle(s) == session_state[s].initialized /\ Free(s)
LoggedIn(s) == Idle(s) /\ session_state[s].user # None
\* main(): the POS terminal page is offered to every role but Inventory Manager
AtPos(s) == LoggedIn(s) /\ session_state[s].role # "Inventory Manager"
\* main(): the Admin Panel page
AtAdminPanel(s) == LoggedIn(s) /\ session_state[s].role \in {"Admin", "Manager"}

\* what a handler that only changes the session state leaves alone
UiFrame == /\ UNCHANGED <<db, env, restocked, pending, rt>>
           /\ ret' = NoRet

\* lines 30-48 of main.py: a script run without 'initialized' in the session
\* state calls init_db(), which deletes every row of active_sessions
NewSession(s) ==
  /\ ~session_state[s].initialized
  /\ active_sessions' = NoSessions
  /\ session_state' = [session_state EXCEPT ![s] = FreshSession]
  /\ ret' = NoRet
  /\ UNCHANGED <<products, coupons, customers, sales, logs, env, restocked,
                 pending, rt>>

\* login_view, lines 156-160: is_pos_occupied and the rejection
LoginCheck(s, u, t) ==
  /\ Idle(s)
  /\ session_state[s].user = None
  /\ logs < MaxLogs
  /\ LET occupied_by == is_pos_occupied(active_sessions, t)
     IN IF occupied_by # None /\ occupied_by # u
        THEN /\ ret' = Ret(s, "login", FALSE, occupied_by, 0)
             /\ UNCHANGED pending
        ELSE /\ pending' = [pending EXCEPT ![s] =
                          [NoPending EXCEPT !.op = "login", !.user = u, !.pos = t]]
             /\ ret' = NoRet
  /\ UNCHANGED <<db, env, restocked, session_state, rt>>

\* login_view, lines 162-182: the credentials are right; lock_terminal,
\* session state, log_activity
LoginLock(s) ==
  /\ pending[s].op = "login"
  /\ logs < MaxLogs
  /\ LET u == pending[s].user
         t == pending[s].pos
     IN /\ \E r \in Rands :
             active_sessions' = lock_terminal(active_sessions, t, u, users[u].role, r)
        /\ session_state' = [session_state EXCEPT
                               ![s].user = u, ![s].role = users[u].role,
                               ![s].full_name = users[u].full_name,
                               ![s].pos_id = t]
        /\ ret' = Ret(s, "login", TRUE, u, 0)
  /\ logs' = logs + 1
  /\ pending' = [pending EXCEPT ![s] = NoPending]
  /\ UNCHANGED <<products, coupons, customers, sales, env, restocked, rt>>

\* logout_user: unlock_terminal, log_activity, st.session_state.clear()
Logout(s) ==
  /\ LoggedIn(s)
  /\ logs < MaxLogs
  /\ active_sessions' = unlock_terminal(active_sessions, session_state[s].user)
  /\ logs' = logs + 1
  /\ session_state' = [session_state EXCEPT ![s] = ClearedSession]
  /\ ret' = NoRet
  /\ UNCHANGED <<products, coupons, customers, sales, env, restocked, pending, rt>>

\* admin_panel, terminals tab: the button of a locked physical terminal
ForceUnlock(s, t) ==
  /\ AtAdminPanel(s)
  /\ t \in Physical
  /\ <<t>> \in DOMAIN active_sessions
  /\ active_sessions' = force_unlock_terminal(active_sessions, t)
  /\ ret' = NoRet
  /\ UNCHANGED <<products, coupons, customers, sales, logs, env, restocked,
                 session_state, pending, rt>>

\* admin_panel, "Force Unlock All Terminals": force_clear_all_sessions
ForceClearAll(s) ==
  /\ AtAdminPanel(s)
  /\ active_sessions # NoSessions
  /\ active_sessions' = NoSessions
  /\ ret' = NoRet
  /\ UNCHANGED <<products, coupons, customers, sales, logs, env, restocked,
                 session_state, pending, rt>>

\* ------------------------------------------------------ main.py: the POS page
\* The stage "payment" stands for 'payment_method' and 'payment_process':
\* the payment mode chosen between them is not part of the model.
InCart(s) == AtPos(s) /\ session_state[s].checkout_stage = "cart"
NoCalc == [total |-> 0, tax |-> 0, discount |-> 0, points |-> 0]

\* pos_interface, "Search / Add": get_customer caches the customer row
LoadCustomer(s, m) ==
  /\ InCart(s)
  /\ m \in DOMAIN customers
  /\ session_state' = [session_state EXCEPT ![s].current_customer =
        [mobile |-> m, loyalty_points |-> customers[m].loyalty_points]]
  /\ UiFrame

\* pos_interface, lines 374-383: "Add" is offered while the stock just read
\* exceeds the units of the product already in the cart
AddItem(s, p, max_units) ==
  /\ InCart(s)
  /\ p \in DOMAIN products
  /\ Len(session_state[s].cart) < max_units
  /\ products[p].stock > CountOf(session_state[s].cart, p)
  /\ session_state' = [session_state EXCEPT ![s].cart = Append(@, p)]
  /\ UiFrame

AddToCart(s, p) == AddItem(s, p, MaxCart)

\* pos_interface, lines 406-423: get_coupon and the minimum bill
ApplyCoupon(s, code) ==
  /\ InCart(s)
  /\ session_state[s].cart # << >>
  /\ LET msg == get_coupon(coupons, code, now)
         raw_total == SumPrice(session_state[s].cart)
     IN IF msg = "Valid"
        THEN IF raw_total >= coupons[code].min_bill
             THEN /\ session_state' = [session_state EXCEPT ![s].applied_coupon = code]
                  /\ ret' = Ret(s, "coupon", TRUE, msg, 0)
             ELSE /\ ret' = Ret(s, "coupon", FALSE, "Min bill required", 0)
                  /\ UNCHANGED session_state
        ELSE /\ ret' = Ret(s, "coupon", FALSE, msg, 0)
             /\ UNCHANGED session_state
  /\ UNCHANGED <<db, env, restocked, pending, rt>>

\* pos_interface, lines 425-434: the "Redeem Points" checkbox
ToggleRedeem(s) ==
  /\ InCart(s)
  /\ session_state[s].cart # << >>
  /\ session_state[s].current_customer.mobile # None
  /\ session_state[s].current_customer.loyalty_points > 0
  /\ session_state' = [session_state EXCEPT ![s].use_points = ~@]
  /\ UiFrame

\* pos_interface, "Clear Cart"
ClearCart(s) ==
  /\ InCart(s)
  /\ session_state[s].cart # << >>
  /\ session_state' = [session_state EXCEPT ![s].cart = << >>,
                                            ![s].applied_coupon = None,
                                            ![s].use_points = FALSE]
  /\ UiFrame

\* pos_interface, "Proceed to Pay": needs a customer; stores final_calc
ProceedToPay(s) ==
  /\ InCart(s)
  /\ session_state[s].cart # << >>
  /\ session_state[s].current_customer.mobile # None
  /\ session_state' = [session_state EXCEPT
        ![s].final_calc = Quote(session_state[s].cart, coupons,
                                session_state[s].applied_coupon,
                                session_state[s].current_customer,
                                session_state[s].use_points, festival,
                                ExpiryInfo(expiry_date, now)),
        ![s].use_points = FALSE,
        ![s].checkout_stage = "payment"]
  /\ UiFrame

\* pos_interface, "Back to Cart"; final_calc is rewritten before its next use
BackToCart(s) ==
  /\ AtPos(s)
  /\ session_state[s].checkout_stage = "payment"
  /\ session_state' = [session_state EXCEPT ![s].checkout_stage = "cart",
                                            ![s].final_calc = NoCalc]
  /\ UiFrame

\* finalize_sale: process_sale_transaction, undo stack, log_activity,
\* generate_auto_coupon, receipt stage
finalize_sale(s) ==
  /\ AtPos(s)
  /\ session_state[s].checkout_stage = "payment"
  /\ Len(sales) < MaxSales
  /\ logs < MaxLogs
  /\ LET ss == session_state[s]
         calc == ss.final_calc
         total == calc.total
         customer_mobile == ss.current_customer.mobile
         points_earned == IF customer_mobile # None
                          THEN calculate_loyalty_points(total) ELSE 0
         committed == process_sale_transaction(ss.cart, total, ss.full_name,
                        ss.pos_id, customer_mobile, calc.tax, calc.discount,
                        ss.applied_coupon, calc.points, points_earned)
     IN /\ products' = committed.products
        /\ sales' = committed.sales
        /\ customers' = committed.customers
        /\ \E code \in AutoCodes :
             coupons' = generate_auto_coupon(committed.coupons, customer_mobile,
                                             code, now)
        /\ session_state' = [session_state EXCEPT
              ![s].undo_stack = Append(@, Len(sales) + 1),
              ![s].checkout_stage = "receipt",
              ![s].final_calc = NoCalc]
        /\ ret' = Ret(s, "sale", TRUE, "", Len(sales) + 1)
  /\ logs' = logs + 1
  /\ UNCHANGED <<active_sessions, env, restocked, pending, rt>>

\* pos_interface, "Start New Sale" on the receipt
StartNewSale(s) ==
  /\ AtPos(s)
  /\ session_state[s].checkout_stage = "receipt"
  /\ session_state' = [session_state EXCEPT ![s].cart = << >>,
                                            ![s].current_customer = NoCustomer,
                                            ![s].checkout_stage = "cart",
                                            ![s].applied_coupon = None,
                                            ![s].use_points = FALSE]
  /\ UiFrame

\* cancel_sale_transaction called with the user and role of the session
CancelRead(s, sale_id, reason) ==
  /\ LoggedIn(s)
  /\ logs < MaxLogs
  /\ cancel_read(s, sale_id, session_state[s].user, session_state[s].role, reason)
  /\ UNCHANGED <<db, env, restocked, session_state, rt>>

\* redo_sale_transaction called with the user of the session
RedoRead(s, sale_id) ==
  /\ LoggedIn(s)
  /\ logs < MaxLogs
  /\ redo_read(s, sale_id, session_state[s].user)
  /\ UNCHANGED <<db, env, restocked, session_state, rt>>

\* ------------------------------------------------------------ specification
SaleIds == 1..(MaxSales + 1)
Codes == {"FLAT10"} \cup AutoCodes

\* Spec: the sale engine used from two checkout desks.  Session s1 is the
\* browser of the operator at POS-1, s2 that of the manager at POS-2.
Desk == [s1 |-> [user |-> "staff", pos |-> "POS-1"],
         s2 |-> [user |-> "manager", pos |-> "POS-2"]]

Next ==
  \E s \in Sessions :
    \/ NewSession(s)
    \/ LoginCheck(s, Desk[s].user, Desk[s].pos)
    \/ LoginLock(s)
    \/ \E t \in Physical : ForceUnlock(s, t)
    \/ \E m \in Mobiles : LoadCustomer(s, m)
    \/ \E p \in Products : AddToCart(s, p)
    \/ \E code \in Codes : ApplyCoupon(s, code)
    \/ ToggleRedeem(s)
    \/ ClearCart(s)
    \/ ProceedToPay(s)
    \/ BackToCart(s)
    \/ finalize_sale(s)
    \/ StartNewSale(s)
    \/ \E id \in SaleIds : CancelRead(s, id, "test")
    \/ CancelWrite(s) /\ UNCHANGED rt
    \/ \E id \in SaleIds : RedoRead(s, id)
    \/ RedoWrite(s) /\ UNCHANGED rt

Spec == Init /\ [][Next]_vars

\* ------------------------------------------------ SpecApi: the engine itself
\* The functions of database.py called directly, by two concurrent callers,
\* with arguments drawn from small sets.
Carts == UNION {[1..n -> Products] : n \in 1..MaxItems}
Operators == {"staff", "manager"}
Roles == {"Operator", "Manager", "Admin"}
ApiSaleIds == 1..(MaxApiSales + 1)

\* process_sale_transaction(cart_items, total, ..., operator, ..., customer_mobile,
\* ..., coupon_code, points_redeemed, points_earned) called directly
ApiSale(c, cart, operator, customer_mobile, coupon_code) ==
  /\ Free(c)
  /\ Len(sales) < MaxApiSales
  /\ LET total == SumPrice(cart)
         committed == process_sale_transaction(cart, total, operator, "POS-1",
                        customer_mobile, 0, 0, coupon_code, 0,
                        calculate_loyalty_points(total))
     IN /\ products' = committed.products
        /\ coupons' = committed.coupons
        /\ sales' = committed.sales
        /\ customers' = committed.customers
  /\ ret' = Ret(c, "sale", TRUE, "", Len(sales) + 1)
  /\ UNCHANGED <<logs, active_sessions, env, restocked, session_state, pending>>

ApiCancelRead(c, sale_id, operator, role, reason) ==
  /\ Free(c)
  /\ logs < MaxLogs
  /\ cancel_read(c, sale_id, operator, role, reason)
  /\ UNCHANGED <<db, env, restocked, session_state>>

ApiRedoRead(c, sale_id, operator) ==
  /\ Free(c)
  /\ logs < MaxLogs
  /\ redo_read(c, sale_id, operator)
  /\ UNCHANGED <<db, env, restocked, session_state>>

ApiRestock(p, quantity) ==
  /\ restock_product(p, quantity)
  /\ ret' = NoRet
  /\ UNCHANGED <<coupons, customers, sales, logs, active_sessions, env,
                 session_state, pending>>

NextApi ==
  \/ \E c \in Sessions, cart \in Carts, o \in Operators, m \in Mobiles,
        code \in {None, "FLAT10"} : ApiSale(c, cart, o, m, code) /\ UNCHANGED rt
  \/ \E c \in Sessions, id \in ApiSaleIds, o \in Operators, r \in Roles,
        reason \in Reasons : ApiCancelRead(c, id, o, r, reason) /\ UNCHANGED rt
  \/ \E c \in Sessions : CancelWrite(c) /\ UNCHANGED rt
  \/ \E c \in Sessions, id \in ApiSaleIds, o \in Operators :
        ApiRedoRead(c, id, o) /\ UNCHANGED rt
  \/ \E c \in Sessions : RedoWrite(c) /\ UNCHANGED rt
  \/ \E p \in Products : ApiRestock(p, 1) /\ UNCHANGED rt

SpecApi == Init /\ [][NextApi]_vars

\* ------------------------------------------- SpecLock: the session lock registry
\* Logins of any user at any terminal, logout, and the unlock buttons of the
\* Admin Panel.
NextLock ==
  \E s \in Sessions :
    \/ NewSession(s)
    \/ \E u \in Users, t \in Terminals : LoginCheck(s, u, t)
    \/ LoginLock(s)
    \/ Logout(s)
    \/ \E t \in Physical : ForceUnlock(s, t)
    \/ ForceClearAll(s)

SpecLock == Init /\ [][NextLock]_vars

\* ----------------------------- SpecRoundTrip: sale, cancel, redo by one caller
\* One caller sells one cart and then cancels and redoes that sale, each call
\* returning before the next starts.  rt records the products table before
\* and right after the sale.
RtCarts == UNION {[1..n -> Products] : n \in 1..RtItems}
RtCaller == "s1"

InitRoundTrip ==
  /\ products \in [Products -> [stock : 0..RtStock, sales_count : {0}]]
  /\ InitTables
  /\ rt = [phase |-> "start", pre |-> products, post |-> products]

RtSale(cart, coupon_code) ==
  /\ rt.phase = "start"
  /\ \E m \in Mobiles : ApiSale(RtCaller, cart, "staff", m, coupon_code)
  /\ rt' = [phase |-> "sold", pre |-> products, post |-> products']

RtCancelRead ==
  /\ rt.phase # "start"
  /\ ApiCancelRead(RtCaller, 1, "manager", "Manager", "test")
  /\ UNCHANGED rt

RtCancelWrite ==
  /\ CancelWrite(RtCaller)
  /\ rt' = [rt EXCEPT !.phase = "cancelled"]

RtRedoRead ==
  /\ rt.phase # "start"
  /\ ApiRedoRead(RtCaller, 1, "manager")
  /\ UNCHANGED rt

RtRedoWrite ==
  /\ RedoWrite(RtCaller)
  /\ rt' = [rt EXCEPT !.phase = "redone"]

NextRoundTrip ==
  \/ \E cart \in RtCarts, code \in {None, "FLAT10"} : RtSale(cart, code)
  \/ RtCancelRead
  \/ RtCancelWrite
  \/ RtRedoRead
  \/ RtRedoWrite

SpecRoundTrip == InitRoundTrip /\ [][NextRoundTrip]_vars

\* ------------------------ SpecCatalog: the engine while products are deleted
\* One caller sells, cancels and redoes; products are deleted in between.
\* delete_product: DELETE FROM products WHERE id=?
delete_product(p) ==
  /\ p \in DOMAIN products
  /\ products' = [q \in DOMAIN products \ {p} |-> products[q]]
  /\ ret' = NoRet
  /\ UNCHANGED <<coupons, customers, sales, logs, active_sessions, env, restocked,
                 session_state, pending>>

\* except Exception: conn.rollback().  A statement or the commit of the call's
\* transaction raises: nothing of it is committed, and the caller gets the
\* error (process_sale_transaction re-raises it, the others return it).
TransactionFails(c) ==
  /\ ret' = Ret(c, "error", FALSE, "exception", pending[c].arg)
  /\ pending' = [pending EXCEPT ![c] = NoPending]
  /\ UNCHANGED <<db, env, restocked, session_state>>

NextCatalog ==
  \/ \E p \in Products : delete_product(p) /\ UNCHANGED rt
  \/ \E cart \in RtCarts, m \in Mobiles, code \in {None, "FLAT10"} :
        ApiSale(RtCaller, cart, "staff", m, code) /\ UNCHANGED rt
  \/ \E id \in ApiSaleIds :
        ApiCancelRead(RtCaller, id, "manager", "Manager", "test") /\ UNCHANGED rt
  \/ CancelWrite(RtCaller) /\ UNCHANGED rt
  \/ \E id \in ApiSaleIds : ApiRedoRead(RtCaller, id, "manager") /\ UNCHANGED rt
  \/ RedoWrite(RtCaller) /\ UNCHANGED rt
  \/ TransactionFails(RtCaller) /\ UNCHANGED rt

SpecCatalog == Init /\ [][NextCatalog]_vars

\* --------------------------- SpecSales: sales committed by concurrent callers
\* process_sale_transaction called by either caller, nothing else running
SaleCall(c, cart, operator, customer_mobile, coupon_code, points_redeemed) ==
  /\ Free(c)
  /\ Len(sales) < MaxSales
  /\ LET total == SumPrice(cart)
         committed == process_sale_transaction(cart, total, operator, "POS-1",
                        customer_mobile, 0, 0, coupon_code, points_redeemed,
                        calculate_loyalty_points(total))
     IN /\ products' = committed.products
        /\ coupons' = committed.coupons
        /\ sales' = committed.sales
        /\ customers' = committed.customers
  /\ ret' = Ret(c, "sale", TRUE, "", Len(sales) + 1)
  /\ UNCHANGED <<logs, active_sessions, env, restocked, session_state, pending, rt>>

NextSales ==
  \E c \in Sessions, cart \in Carts, o \in Operators, m \in Mobiles,
     code \in {None, "FLAT10"}, points_redeemed \in {0, 2} :
       SaleCall(c, cart, o, m, code, points_redeemed)

SpecSales == Init /\ [][NextSales]_vars

\* ------------------------------ SpecCoupons: coupons created, read and redeemed
\* The clock advances; an administrator creates a coupon; callers commit sales
\* with or without a customer and a coupon code; after a customer's sale
\* finalize_sale issues the customer a coupon; get_coupon is called.
NewCodes == {"NEW5"}
CouponCodes == Codes \cup NewCodes
CouponCustomers == Mobiles \cup {None}

\* datetime.now() moves on by half a day
Tick ==
  /\ now < MaxNow
  /\ now' = now + 1
  /\ ret' = NoRet
  /\ UNCHANGED <<db, festival, gst_enabled, expiry_date, restocked,
                 session_state, pending, rt>>

\* admin_panel, coupon form: create_coupon(code, 'Flat', 5, 0, days_valid, limit);
\* the form takes a validity of one day or more
CreateCoupon(code, days_valid, limit) ==
  /\ code \notin DOMAIN coupons
  /\ coupons' = create_coupon(coupons, code, "Flat", 5, 0, days_valid, limit, now)
  /\ ret' = NoRet
  /\ UNCHANGED <<products, customers, sales, logs, active_sessions, env, restocked,
                 session_state, pending, rt>>

\* finalize_sale, lines 718-721: generate_auto_coupon for the customer of the
\* sale just committed
AutoCoupon(code) ==
  /\ sales # << >>
  /\ code \notin DOMAIN coupons
  /\ sales[Len(sales)].customer_mobile # None
  /\ coupons' = generate_auto_coupon(coupons, sales[Len(sales)].customer_mobile,
                                     code, now)
  /\ ret' = NoRet
  /\ UNCHANGED <<products, customers, sales, logs, active_sessions, env, restocked,
                 session_state, pending, rt>>

\* db.get_coupon(code, customer_mobile=...) as called by pos_interface;
\* get_coupon declares the parameter code only
GetCoupon(c, code, customer_mobile) ==
  /\ Free(c)
  /\ LET msg == get_coupon(coupons, code, now)
     IN ret' = Ret(c, "get_coupon", msg = "Valid", msg, 0)
  /\ UNCHANGED <<db, env, restocked, session_state, pending, rt>>

NextCoupons ==
  \/ Tick
  \/ \E code \in NewCodes, limit \in {1, 2} : CreateCoupon(code, 1, limit)
  \/ \E code \in AutoCodes : AutoCoupon(code)
  \/ \E c \in Sessions, cart \in Carts, m \in CouponCustomers,
        code \in CouponCodes \cup {None} : SaleCall(c, cart, "staff", m, code, 0)
  \/ \E c \in Sessions, code \in CouponCodes, m \in CouponCustomers :
        GetCoupon(c, code, m)

SpecCoupons == Init /\ [][NextCoupons]_vars

\* ------------------------------------ SpecPricing: the billing of one checkout
\* The store sells two products added with an expiry date (add_product), has
\* a flat and a percent coupon, and may have GST billing and a festival
\* campaign switched on.  One session fills a cart and prices it.
PricingSession == "s1"
PricingCodes == {"FLAT10", "PCT10"}
DatedDays == {0, 1, 11, 12, 31, 32, 61, 62, 91, 92}
ExpiryDates ==
  [p \in Products |->
     {NoExpiry} \cup {[na |-> FALSE, day |-> d] :
                        d \in IF p = 1 THEN DatedDays ELSE {6, 21}}]

InitPricing ==
  /\ products = [p \in Products |-> [stock |-> MaxPriced, sales_count |-> 0]]
  /\ coupons = [c \in PricingCodes |->
                   [discount_type |-> IF c = "FLAT10" THEN "Flat" ELSE "%",
                    value |-> 10, min_bill |-> 50,
                    valid_until |-> 30, usage_limit |-> 1, used_count |-> 0]]
  /\ customers = [m \in Mobiles |-> OpeningCustomer]
  /\ sales = << >>
  /\ logs = 0
  /\ active_sessions = NoSessions
  /\ now = 1
  /\ festival \in BOOLEAN
  /\ gst_enabled \in BOOLEAN
  /\ expiry_date \in [Products -> UNION {ExpiryDates[p] : p \in Products}]
  /\ \A p \in Products : expiry_date[p] \in ExpiryDates[p]
  /\ restocked = [p \in Products |-> 0]
  /\ session_state = [s \in Sessions |-> ClearedSession]
  /\ pending = [s \in Sessions |-> NoPending]
  /\ ret = NoRet
  /\ rt = NoRoundTrip

\* pos_interface, line 442: the loss-prevention discount of the session's cart
LossPrevention(s) ==
  /\ InCart(s)
  /\ session_state[s].cart # << >>
  /\ ret' = Ret(s, "loss_prevention", TRUE, "",
                calculate_advanced_loss_prevention(session_state[s].cart,
                                                   ExpiryInfo(expiry_date, now)))
  /\ UNCHANGED <<db, env, restocked, session_state, pending, rt>>

NextPricing ==
  \E s \in {PricingSession} :
    \/ NewSession(s)
    \/ LoginCheck(s, Desk[s].user, Desk[s].pos)
    \/ LoginLock(s)
    \/ \E m \in Mobiles : LoadCustomer(s, m)
    \/ \E p \in Products : AddItem(s, p, MaxPriced)
    \/ \E code \in PricingCodes : ApplyCoupon(s, code)
    \/ ToggleRedeem(s)
    \/ ClearCart(s)
    \/ LossPrevention(s)
    \/ ProceedToPay(s)
    \/ BackToCart(s)

SpecPricing == InitPricing /\ [][NextPricing]_vars

\* ------------------------------- SpecCheckout: one desk, calls that can raise
\* finalize_sale, lines 695-741: everything from process_sale_transaction to
\* the receipt is in one try block, and any exception is reported as
\* "Transaction Failed".  The call that raises is process_sale_transaction
\* (rolled back), log_activity (its own connection and INSERT) or
\* generate_receipt_pdf (the text of the receipt).
FailurePoints == {"sale", "log", "receipt"}

finalize_sale_fails(s, failed_call) ==
  /\ AtPos(s)
  /\ session_state[s].checkout_stage = "payment"
  /\ Len(sales) < MaxSales
  /\ logs < MaxLogs
  /\ LET ss == session_state[s]
         calc == ss.final_calc
         total == calc.total
         customer_mobile == ss.current_customer.mobile
         points_earned == IF customer_mobile # None
                          THEN calculate_loyalty_points(total) ELSE 0
         committed == process_sale_transaction(ss.cart, total, ss.full_name,
                        ss.pos_id, customer_mobile, calc.tax, calc.discount,
                        ss.applied_coupon, calc.points, points_earned)
     IN IF failed_call = "sale"
        THEN UNCHANGED <<products, sales, customers, coupons, session_state, logs>>
        ELSE /\ products' = committed.products
             /\ sales' = committed.sales
             /\ customers' = committed.customers
             /\ session_state' = [session_state EXCEPT
                   ![s].undo_stack = Append(@, Len(sales) + 1)]
             /\ IF failed_call = "log"
                THEN /\ coupons' = committed.coupons
                     /\ logs' = logs
                ELSE /\ \E code \in AutoCodes :
                          coupons' = generate_auto_coupon(committed.coupons,
                                                          customer_mobile, code, now)
                     /\ logs' = logs + 1
  /\ ret' = Ret(s, "sale", FALSE, "Transaction Failed", 0)
  /\ UNCHANGED <<active_sessions, env, restocked, pending, rt>>

CheckoutSession == "s1"

NextCheckout ==
  \E s \in {CheckoutSession} :
    \/ NewSession(s)
    \/ LoginCheck(s, Desk[s].user, Desk[s].pos)
    \/ LoginLock(s)
    \/ \E m \in Mobiles : LoadCustomer(s, m)
    \/ \E p \in Products : AddToCart(s, p)
    \/ \E code \in Codes : ApplyCoupon(s, code)
    \/ ToggleRedeem(s)
    \/ ClearCart(s)
    \/ ProceedToPay(s)
    \/ BackToCart(s)
    \/ finalize_sale(s)
    \/ \E failed_call \in FailurePoints : finalize_sale_fails(s, failed_call)
    \/ StartNewSale(s)

SpecCheckout == Init /\ [][NextCheckout]_vars

\* ------------------------------ SpecRoles: cancellations under any role value
\* One caller sells, cancels and redoes; the role passed to
\* cancel_sale_transaction is any role of the application or another string.
AllRoles == Roles \cup {"Inventory Manager", "Guest"}

NextRoles ==
  \/ \E cart \in Carts, o \in Operators, m \in Mobiles :
        ApiSale(RtCaller, cart, o, m, None) /\ UNCHANGED rt
  \/ \E id \in ApiSaleIds, o \in Operators, r \in AllRoles, reason \in Reasons :
        ApiCancelRead(RtCaller, id, o, r, reason) /\ UNCHANGED rt
  \/ CancelWrite(RtCaller) /\ UNCHANGED rt
  \/ \E id \in ApiSaleIds, o \in Operators :
        ApiRedoRead(RtCaller, id, o) /\ UNCHANGED rt
  \/ RedoWrite(RtCaller) /\ UNCHANGED rt

SpecRoles == Init /\ [][NextRoles]_vars

\* ------------------------------------------------------------------ claims
\* units of product p in the sales now Completed
RECURSIVE UnitsSold(_, _)
UnitsSold(sls, p) ==
  IF sls = << >> THEN 0
  ELSE (IF Head(sls).status = "Completed" THEN CountOf(Head(sls).items, p) ELSE 0)
       + UnitsSold(Tail(sls), p)

\* C1: no product's stock is ever negative, whatever the sessions do.
C1_StockNeverNegative == \A p \in Products : products[p].stock >= 0

\* C2: a checkout whose cart asks for more units of a product than are in
\* stock changes no stock, no sale, no customer and no coupon.
C2_OverStockCartChangesNothing ==
  [][\A s \in Sessions :
       (/\ finalize_sale(s)
        /\ \E p \in Products : CountOf(session_state[s].cart, p) > products[p].stock)
       => UNCHANGED <<products, sales, customers, coupons>>]_vars

\* C3: two sessions logged in on the same physical terminal belong to the
\* same user.
C3_OneUserPerTerminal ==
  \A s1, s2 \in Sessions :
    (/\ session_state[s1].user # None
     /\ session_state[s2].user # None
     /\ session_state[s1].pos_id \in Physical
     /\ session_state[s1].pos_id = session_state[s2].pos_id)
    => session_state[s1].user = session_state[s2].user

\* C4: a session that commits a sale holds the lock of its terminal at the
\* moment of the commit.
C4_CommitOnlyWithLock ==
  [][\A s \in Sessions :
       finalize_sale(s) =>
         is_pos_occupied(active_sessions, session_state[s].pos_id)
           = session_state[s].user]_vars

\* C5: concurrent cancellations, or concurrent redos, of one sale restore or
\* deduct its stock exactly once: the write of a cancellation finds the sale
\* Completed, the write of a redo finds it Cancelled, and so every product's
\* stock plus its units in Completed sales is its opening stock plus restocks.
C5_ExactlyOnce ==
  \A p \in Products :
    products[p].stock + UnitsSold(sales, p) = OpeningStock[p] + restocked[p]

\* C6: a coupon's used_count never exceeds its usage_limit, and a get_coupon
\* call that rejects a code leaves the coupons as they are.
C6_CouponWithinLimit ==
  /\ [](\A code \in DOMAIN coupons :
          coupons[code].used_count <= coupons[code].usage_limit)
  /\ [][\A s \in Sessions, code \in Codes :
          (ApplyCoupon(s, code) /\ get_coupon(coupons, code, now) # "Valid")
          => UNCHANGED coupons]_vars

\* C7: no customer's loyalty_points is ever negative.
C7_PointsNeverNegative ==
  \A m \in DOMAIN customers : customers[m].loyalty_points >= 0

\* C8: after a sale is cancelled every product's stock and sales_count are
\* what they were before the sale; after it is redone they are what they
\* were right after the sale.  The cart may repeat a product.
C8_RoundTrip ==
  /\ rt.phase = "cancelled" => products = rt.pre
  /\ rt.phase = "redone" => products = rt.post

\* a sale of a cart that repeats a product has been cancelled and redone
C8_Witness ==
  /\ rt.phase = "redone"
  /\ logs >= 2
  /\ \E p \in Products : CountOf(sales[1].items, p) >= 2
  /\ rt.post # rt.pre

\* C9 as stated: an Operator cancelling a sale recorded under another name is
\* told Permission Denied, whatever the status of the sale, and nothing changes.
C9_AlwaysPermissionDenied ==
  [][\A c \in Sessions, id \in ApiSaleIds, o \in Operators, reason \in Reasons :
       (/\ ApiCancelRead(c, id, o, "Operator", reason)
        /\ id \in DOMAIN sales
        /\ sales[id].operator # o)
       => /\ ret'.ok = FALSE
          /\ ret'.msg = PermissionDenied
          /\ UNCHANGED <<db, pending>>]_vars

\* C9 amended: an Operator cancelling a sale recorded under another name fails
\* and nothing changes; the message is Permission Denied for a Completed sale
\* and "Sale already cancelled" for a Cancelled one.
C9_OperatorCannotCancelOthers ==
  [][\A c \in Sessions, id \in ApiSaleIds, o \in Operators, reason \in Reasons :
       (/\ ApiCancelRead(c, id, o, "Operator", reason)
        /\ id \in DOMAIN sales
        /\ sales[id].operator # o)
       => /\ ret'.ok = FALSE
          /\ ret'.msg = IF sales[id].status = "Cancelled"
                        THEN "Sale already cancelled" ELSE PermissionDenied
          /\ UNCHANGED <<db, pending>>]_vars

\* an Operator has just been refused the cancellation of a Cancelled sale
\* recorded under another name
C9_Witness ==
  /\ ret.op = "cancel"
  /\ ret.role = "Operator"
  /\ ret.arg \in DOMAIN sales
  /\ sales[ret.arg].operator # ret.user
  /\ sales[ret.arg].status = "Cancelled"
  /\ ret.msg = "Sale already cancelled"

\* C10: an Operator's cancellation of a Completed sale that the Operator's own
\* session committed through finalize_sale passes the checks and goes on to
\* restore the stock.
C10_OperatorCancelsOwnSale ==
  [][\A s \in Sessions, id \in SaleIds :
       (/\ CancelRead(s, id, "test")
        /\ session_state[s].role = "Operator"
        /\ \E i \in DOMAIN session_state[s].undo_stack :
             session_state[s].undo_stack[i] = id
        /\ sales[id].status = "Completed")
       => pending'[s].op = "cancel"]_vars

\* C11: a Manager or Admin is never refused the cancellation of a Completed
\* sale, whoever its operator is, and a cancellation that returns success
\* leaves the sale Cancelled with the reason given and cancelled_by the caller.
C11_ManagerCancelsAnySale ==
  /\ (/\ ret.op = "cancel"
      /\ ret.role \in {"Manager", "Admin"}
      /\ ret.arg \in DOMAIN sales
      /\ sales[ret.arg].status = "Completed") => ret.ok
  /\ (ret.op = "cancel" /\ ret.ok) =>
       /\ sales[ret.arg].status = "Cancelled"
       /\ sales[ret.arg].cancellation_reason = ret.reason
       /\ sales[ret.arg].cancelled_by = ret.user

\* a caller has cancelled, with a reason, a sale recorded under another name
C11_Witness ==
  /\ ret.op = "cancel"
  /\ ret.ok
  /\ ret.reason # ""
  /\ sales[ret.arg].operator # ret.user
  /\ sales[ret.arg].cancelled_by = ret.user

\* C12: a cancellation goes on to its writes only for an existing Completed
\* sale and a redo only for an existing Cancelled one; otherwise the call
\* returns the already-cancelled, not-cancelled or not-found failure, and a
\* call that returns a failure changes no product, no sale and no log row.
C12_RefusedCallsChangeNothing ==
  [][/\ (ret'.op \in {"cancel", "redo"} /\ ~ret'.ok)
        => UNCHANGED <<products, sales, logs, pending>>
     /\ \A c \in Sessions :
          /\ (pending[c].op = "none" /\ pending'[c].op = "cancel")
               => /\ pending'[c].arg \in DOMAIN sales
                  /\ sales[pending'[c].arg].status = "Completed"
          /\ (pending[c].op = "none" /\ pending'[c].op = "redo")
               => /\ pending'[c].arg \in DOMAIN sales
                  /\ sales[pending'[c].arg].status = "Cancelled"
     /\ (ret'.op = "cancel" /\ ~ret'.ok /\ ret'.arg \notin DOMAIN sales)
          => ret'.msg = "Sale ID not found"
     /\ (ret'.op = "cancel" /\ ~ret'.ok /\ ret'.arg \in DOMAIN sales
           /\ sales[ret'.arg].status = "Cancelled")
          => ret'.msg = "Sale already cancelled"
     /\ (ret'.op = "redo" /\ ~ret'.ok /\ ret'.arg \notin DOMAIN sales)
          => ret'.msg = "ID not found"
     /\ (ret'.op = "redo" /\ ~ret'.ok /\ ret'.arg \in DOMAIN sales)
          => (sales[ret'.arg].status = "Completed"
              /\ ret'.msg = "Sale is not cancelled")]_vars

\* a redo of a sale that was cancelled and redone before has been refused
C12_Witness ==
  /\ ret.op = "redo"
  /\ ~ret.ok
  /\ ret.msg = "Sale is not cancelled"
  /\ logs >= 2

\* C13: no sale is committed for a cart with a line whose product has no row
\* in products: such a call fails and changes no product, coupon, sale or
\* customer.
C13_MissingProductFailsSale ==
  [][Len(sales') > Len(sales) =>
       \A i \in DOMAIN sales'[Len(sales')].items :
         sales'[Len(sales')].items[i] \in DOMAIN products]_vars

\* the whole effect of one process_sale_transaction call
SaleEffect ==
  /\ Len(sales') = Len(sales) + 1
  /\ SubSeq(sales', 1, Len(sales)) = sales
  /\ LET row == sales'[Len(sales')]
     IN /\ row.status = "Completed"
        /\ products' = SellItems(products, row.items)
        /\ coupons' = UseCoupon(coupons, row.coupon_applied)
        /\ customers' = UpdateCustomer(customers, row.customer_mobile,
                           row.total_amount,
                           calculate_loyalty_points(row.total_amount),
                           row.points_redeemed)
  /\ logs' = logs

\* the whole effect of one cancel_sale_transaction call on sale id
CancelEffect(id) ==
  /\ sales'[id].status = "Cancelled"
  /\ sales' = [sales EXCEPT ![id] = sales'[id]]
  /\ products' = RestoreItems(products, sales[id].items)
  /\ logs' = logs + 1
  /\ UNCHANGED <<coupons, customers>>

\* the whole effect of one redo_sale_transaction call on sale id
RedoEffect(id) ==
  /\ sales'[id].status = "Completed"
  /\ sales[id].status = "Cancelled"
  /\ sales' = [sales EXCEPT ![id] = sales'[id]]
  /\ products' = SellItems(products, sales[id].items)
  /\ logs' = logs + 1
  /\ UNCHANGED <<coupons, customers>>

RECURSIVE SumSeq(_)
SumSeq(seq) == IF seq = << >> THEN 0 ELSE Head(seq) + SumSeq(Tail(seq))

\* over the sales of customer m: their number, their totals, their points
VisitsOf(m) ==
  SumSeq([i \in DOMAIN sales |-> IF sales[i].customer_mobile = m THEN 1 ELSE 0])
SpendOf(m) ==
  SumSeq([i \in DOMAIN sales |->
            IF sales[i].customer_mobile = m THEN sales[i].total_amount ELSE 0])
PointsOf(m) ==
  SumSeq([i \in DOMAIN sales |->
            IF sales[i].customer_mobile = m
            THEN calculate_loyalty_points(sales[i].total_amount)
                 - sales[i].points_redeemed
            ELSE 0])
UsesOf(code) ==
  SumSeq([i \in DOMAIN sales |-> IF sales[i].coupon_applied = code THEN 1 ELSE 0])

\* C15: after any interleaving of successful sales by different callers every
\* product's stock is its opening stock minus the units sold, every coupon's
\* used_count is its opening value plus the sales that name it, and every
\* customer's visits, total_spend and loyalty_points are the opening values
\* plus the number, the totals and the net points of the customer's sales.
C15_NoLostUpdate ==
  /\ \A p \in Products :
       /\ products[p].stock = OpeningStock[p] - UnitsSold(sales, p)
       /\ products[p].sales_count = UnitsSold(sales, p)
  /\ \A code \in DOMAIN coupons : coupons[code].used_count = UsesOf(code)
  /\ \A m \in DOMAIN customers :
       /\ customers[m].visits = OpeningCustomer.visits + VisitsOf(m)
       /\ customers[m].total_spend = OpeningCustomer.total_spend + SpendOf(m)
       /\ customers[m].loyalty_points = OpeningCustomer.loyalty_points + PointsOf(m)

\* both callers have committed a sale for the same customer with the same coupon
C15_Witness ==
  /\ Len(sales) >= 2
  /\ ret.session = "s2"
  /\ sales[1].customer_mobile = sales[2].customer_mobile
  /\ sales[1].coupon_applied = "FLAT10"
  /\ sales[2].coupon_applied = "FLAT10"
  /\ sales[2].points_redeemed = 2
  /\ customers[sales[1].customer_mobile].visits = OpeningCustomer.visits + 2

\* physical terminal t has a lock row in this state, and in the next state
\* the row is gone or names another user
LockLost(t) ==
  /\ <<t>> \in DOMAIN active_sessions
  /\ \/ <<t>> \notin DOMAIN active_sessions'
     \/ active_sessions'[<<t>>].username # active_sessions[<<t>>].username

\* C16: the lock row of a physical terminal is removed or replaced only by
\* its holder logging out or by a force unlock done by an Admin.
C16_LockReleasedOnlyByHolderOrAdmin ==
  [][\A t \in Physical :
       LockLost(t) =>
         \E s \in Sessions :
           \/ /\ Logout(s)
              /\ session_state[s].user = active_sessions[<<t>>].username
           \/ /\ session_state[s].role = "Admin"
              /\ (ForceUnlock(s, t) \/ ForceClearAll(s))]_vars

\* C17: a login attempt on a physical terminal whose lock row names another
\* user is rejected with a message naming the holder, logs nobody in and
\* leaves active_sessions as it is.
C17_OccupiedLoginRejected ==
  [][\A s \in Sessions, u \in Users, t \in Physical :
       (/\ LoginCheck(s, u, t)
        /\ <<t>> \in DOMAIN active_sessions
        /\ active_sessions[<<t>>].username # u)
       => /\ ret' = Ret(s, "login", FALSE, active_sessions[<<t>>].username, 0)
          /\ UNCHANGED <<active_sessions, session_state, pending>>]_vars

\* a login has just been rejected because of the holder still in the registry
C17_Witness ==
  /\ ret.op = "login"
  /\ ~ret.ok
  /\ session_state[ret.session].user = None
  /\ \E t \in Physical :
       /\ <<t>> \in DOMAIN active_sessions
       /\ active_sessions[<<t>>].username = ret.msg

OfficeRows(as) == {k \in DOMAIN as : Len(k) = 3}

\* C18: a login on the Office Dashboard is never rejected as occupied; a
\* successful one adds a row under a new key and keeps every row there was;
\* and a back-office row stays until a logout or a forced clearing, so that
\* k logins without a logout leave k back-office rows.
C18_BackOfficeRowsAccumulate ==
  [][/\ \A s \in Sessions, u \in Users :
          LoginCheck(s, u, OfficeDashboard) => pending'[s].op = "login"
     /\ \A s \in Sessions :
          (LoginLock(s) /\ pending[s].pos = OfficeDashboard)
          => /\ Cardinality(DOMAIN active_sessions')
                  = Cardinality(DOMAIN active_sessions) + 1
             /\ \A k \in DOMAIN active_sessions :
                  /\ k \in DOMAIN active_sessions'
                  /\ active_sessions'[k] = active_sessions[k]
     /\ (\E k \in OfficeRows(active_sessions) : k \notin DOMAIN active_sessions')
          => \E s \in Sessions : Logout(s) \/ ForceClearAll(s)]_vars

\* C19: no username holds the lock rows of two physical terminals.
C19_OnePhysicalRowPerUser ==
  \A k1, k2 \in DOMAIN active_sessions :
    (/\ Len(k1) = 1
     /\ Len(k2) = 1
     /\ active_sessions[k1].username = active_sessions[k2].username)
    => k1 = k2

\* C20: a cancellation needs a reason: every Cancelled sale has a non-empty
\* cancellation_reason and a cancelled_by, and a cancellation called with an
\* empty reason does not go on to its writes.
C20_ReasonMandatory ==
  /\ \A i \in DOMAIN sales :
       sales[i].status = "Cancelled" =>
         /\ sales[i].cancellation_reason \notin {"", None}
         /\ sales[i].cancelled_by # None
  /\ \A c \in Sessions : pending[c].op = "cancel" => pending[c].reason # ""

\* C21: get_coupon returns the coupon as Valid exactly when a row with the
\* code exists, the current day is not after its valid_until day and
\* used_count < usage_limit; otherwise it returns no coupon and one reason:
\* Invalid Code, Expired or Usage Limit Reached.
C21_GetCouponContract ==
  [][\A c \in Sessions, code \in CouponCodes, m \in CouponCustomers :
       GetCoupon(c, code, m) =>
         /\ ret'.msg =
              IF code \notin DOMAIN coupons THEN "Invalid Code"
              ELSE IF now \div 2 > coupons[code].valid_until THEN "Expired"
              ELSE IF coupons[code].used_count >= coupons[code].usage_limit
                   THEN "Usage Limit Reached"
              ELSE "Valid"
         /\ ret'.ok = (ret'.msg = "Valid")]_vars

\* C22: the coupon generate_auto_coupon issues to a customer is accepted by
\* get_coupon, and counted as used by a committed sale, only for the customer
\* it was issued to: with no customer attached get_coupon rejects it and a
\* sale leaves its used_count alone.
C22_BoundCouponOnlyForItsCustomer ==
  [][\A c \in Sessions, code \in AutoCodes :
       code \in DOMAIN coupons =>
         /\ GetCoupon(c, code, None) => ~ret'.ok
         /\ (\E cart \in Carts : SaleCall(c, cart, "staff", None, code, 0))
              => coupons'[code].used_count = coupons[code].used_count]_vars

\* the discount the tiers give q units at unit price p with d days remaining
LossStep(q, p, d) ==
  IF d < 0 \/ d > 90 THEN 0
  ELSE IF d <= 10 THEN q * p
  ELSE IF d <= 30 THEN p * (q \div 2)
  ELSE IF d <= 60 THEN (q * p) \div 2
  ELSE (q * p * 4) \div 10

\* the discount of product p in the cart: none without units or without an
\* expiry date
LossOf(cart, p) ==
  IF CountOf(cart, p) = 0 \/ expiry_date[p].na THEN 0
  ELSE LossStep(CountOf(cart, p), price[p], days_left(expiry_date[p].day, now))

\* C23: the discount calculate_advanced_loss_prevention returns for a cart is
\* the sum over its distinct products of the tier discount of the product's
\* units: nothing when expired, beyond 90 days or without an expiry date; all
\* of q*p up to 10 days; p*floor(q/2) up to 30; q*p/2 up to 60; q*p*0.4 up to 90.
C23_LossPreventionTiers ==
  ret.op = "loss_prevention" =>
    ret.arg = LossOf(session_state[ret.session].cart, 1)
              + LossOf(session_state[ret.session].cart, 2)

\* a cart of two units in the Buy-One-Get-One tier and one unit of a product
\* that is free has been priced
C23_Witness ==
  /\ ret.op = "loss_prevention"
  /\ CountOf(session_state[ret.session].cart, 1) = 2
  /\ CountOf(session_state[ret.session].cart, 2) = 1
  /\ ~expiry_date[1].na /\ days_left(expiry_date[1].day, now) = 11
  /\ ~expiry_date[2].na /\ days_left(expiry_date[2].day, now) = 5
  /\ ret.arg = price[1] + price[2]

\* what the session's coupon takes off a subtotal: its value if Flat, its
\* percentage of the subtotal if percent
CouponOff(s, subtotal) ==
  LET code == session_state[s].applied_coupon
  IN IF code = None THEN 0
     ELSE IF coupons[code].discount_type = "Flat" THEN coupons[code].value
     ELSE (subtotal * coupons[code].value) \div 100

\* the payable amount before tax of the session's cart with the points redeemed
PayableOf(s, points) ==
  LET subtotal == SumPrice(session_state[s].cart)
      owed == subtotal - CouponOff(s, subtotal)
                - (IF festival THEN (subtotal * 5) \div 100 ELSE 0)
                - points
                - LossOf(session_state[s].cart, 1) - LossOf(session_state[s].cart, 2)
  IN IF owed < 0 THEN 0 ELSE owed

\* C24: the quote a session takes to payment has as payable amount
\* max(0, subtotal - coupon discount - festival discount - redeemed points -
\* loss-prevention discount) and as total that amount plus the tax on it;
\* neither is negative.
C24_PayableFlooredAtZero ==
  \A s \in Sessions :
    session_state[s].checkout_stage = "payment" =>
      LET calc == session_state[s].final_calc
          payable == PayableOf(s, calc.points)
      IN /\ calc.total - calc.tax = payable
         /\ calc.tax = (IF gst_enabled THEN (payable * tax_rate) \div 100 ELSE 0)
         /\ calc.total >= 0
         /\ calc.total - calc.tax >= 0

\* two units at 100 that are free in the loss-prevention tier go to payment
\* with the flat coupon: the discounts exceed the subtotal and the total is 0
C24_Witness ==
  \E s \in Sessions :
    /\ session_state[s].checkout_stage = "payment"
    /\ session_state[s].cart = <<1, 1>>
    /\ session_state[s].applied_coupon = "FLAT10"
    /\ LossOf(session_state[s].cart, 1) = 2 * price[1]
    /\ session_state[s].final_calc.discount > SumPrice(session_state[s].cart)
    /\ session_state[s].final_calc.total = 0

\* C25: in every state every customer's segment is the one its total_spend
\* determines: High-Value above 50000, Regular above 10000 up to 50000,
\* Occasional or New up to 10000.
C25_SegmentFollowsSpend ==
  \A m \in DOMAIN customers :
    LET row == customers[m]
    IN /\ (row.segment = "High-Value") <=> (row.total_spend > 50000)
       /\ (row.segment = "Regular")
            <=> (row.total_spend > 10000 /\ row.total_spend <= 50000)
       /\ (row.segment \in {"Occasional", "New"}) <=> (row.total_spend <= 10000)

\* some sale's status differs between this state and the next
StatusChanged == \E i \in DOMAIN sales : sales'[i].status # sales[i].status

\* a coupon's used_count, or a customer's total_spend or loyalty_points,
\* differs between this state and the next
CountersChanged ==
  \/ \E code \in DOMAIN coupons :
       coupons'[code].used_count # coupons[code].used_count
  \/ \E m \in DOMAIN customers :
       \/ customers'[m].total_spend # customers[m].total_spend
       \/ customers'[m].loyalty_points # customers[m].loyalty_points

C27_StockConservation ==
  (\A c \in Sessions : pending[c].op = "none") =>
    \A p \in Products :
      /\ products[p].sales_count = UnitsSold(sales, p)
      /\ products[p].stock = OpeningStock[p] + restocked[p] - UnitsSold(sales, p)

\* C28: a finalize_sale call that reports Transaction Failed has committed
\* nothing: no sale row, no stock, no coupon use and no customer update.
C28_FailedMeansNothingCommitted ==
  [][(ret'.op = "sale" /\ ~ret'.ok)
       => UNCHANGED <<products, coupons, customers, sales>>]_vars

\* C29: redo_sale_transaction called by a user with role Operator on a sale
\* recorded under another name is rejected and changes no status and no stock.
C29_OperatorCannotRedoOthers ==
  [][\A c \in Sessions, id \in ApiSaleIds, o \in Operators :
       (/\ ApiRedoRead(c, id, o)
        /\ users[o].role = "Operator"
        /\ id \in DOMAIN sales
        /\ sales[id].operator # o)
       => /\ ~ret'.ok
          /\ UNCHANGED <<db, pending>>]_vars

\* C30: cancel_sale_transaction called on a sale recorded under another name
\* with a role that is neither Manager nor Admin is denied and changes nothing.
C30_OnlyManagerOrAdminCancelsOthers ==
  [][\A id \in ApiSaleIds, o \in Operators, r \in AllRoles, reason \in Reasons :
       (/\ ApiCancelRead(RtCaller, id, o, r, reason)
        /\ r \notin {"Manager", "Admin"}
        /\ id \in DOMAIN sales
        /\ sales[id].operator # o)
       => /\ ~ret'.ok
          /\ UNCHANGED <<db, pending>>]_vars

====
